---- MODULE Spec2Model ----
(***************************************************************************)
(* Model of the limit-order matching core in                               *)
(* src/match_engine/orderbook.rs: Order, Execution, Limit (one price       *)
(* level) and OrderBook (two HashMaps price -> Limit).                     *)
(*                                                                         *)
(* Prices (rust_decimal::Decimal, exact) are modelled by integers.         *)
(* Sizes are f64 in the source.  They are modelled by a binary floating    *)
(* point format with a Precision-bit significand and round-to-nearest,     *)
(* ties-to-even subtraction, scaled down from the 53 bits of f64: every    *)
(* natural below 2^Precision is exact, larger values are multiples of a    *)
(* growing power of two.  What f64 does at 2^54 - 1 = 2^54 happens here at *)
(* 4 - 1 = 4 when Precision = 1.  Sizes are finite and non-negative (a     *)
(* size is a non-negative quantity that starts strictly positive); the     *)
(* incoming order of a fill may already be filled (size zero).             *)
(*                                                                         *)
(* Each call on the book is one step.  op, arg_price, order0, order and    *)
(* executions record the last call: its name, its price argument, the      *)
(* order as passed, the order on return and the returned Vec<Execution>.   *)
(***************************************************************************)
EXTENDS Integers, Sequences, FiniteSets, TLC

\* ---------------------------------------------------------------- bounds
MaxPrice == 2
MaxSize == 4
Precision == 1
MaxOrders == 3

Prices == 1..MaxPrice
Sides == {"Bid", "Ask"}

\* Option<Decimal>::None of fill_order's limit_price
None == 0

\* id of the incoming (aggressing) order of a fill call; resting orders take
\* their ids from nextId in 1..MaxOrders, so the two never collide
TakerId == MaxOrders + 1

\* ------------------------------------------------------- f64 arithmetic
RECURSIVE Pow2(_)
Pow2(n) == IF n = 0 THEN 1 ELSE 2 * Pow2(n - 1)

\* spacing of the representable values around x
RECURSIVE Quantum(_, _)
Quantum(x, q) == IF x < Pow2(Precision) * q THEN q ELSE Quantum(x, 2 * q)

\* round-to-nearest, ties-to-even
RoundF64(x) ==
    LET q == Quantum(x, 1)
        lo == (x \div q) * q
        hi == lo + q
    IN  IF x = lo THEN x
        ELSE IF x - lo < hi - x THEN lo
        ELSE IF x - lo > hi - x THEN hi
        ELSE IF (lo \div q) % 2 = 0 THEN lo ELSE hi

Representable(x) == RoundF64(x) = x

\* a -= b on f64, for a >= b >= 0
SubAssign(a, b) == RoundF64(a - b)

\* the sizes a caller can pass
Sizes == {x \in 0..MaxSize : Representable(x)}
\* sizes of orders handed to add_limit_order (a new order's size is > 0)
AddSizes == Sizes \ {0}

\* ------------------------------------------------------------ Order
OrderNew(id, bid_or_ask, size) ==
    [id |-> id, bid_or_ask |-> bid_or_ask, size |-> size]

is_filled(order) == order.size = 0

\* ------------------------------------------------------------ Execution
\* the order's own size recorded in place of the shares
ExecutionNew_order_size(order, size, price) ==
    [id |-> order.id, size |-> order.size, bid_or_ask |-> order.bid_or_ask,
     price |-> price]

ExecutionNew(order, size, price) ==
    [id |-> order.id, size |-> size, bid_or_ask |-> order.bid_or_ask,
     price |-> price]

\* ------------------------------------------------------------ Limit
\* a level built without its price
LimitNew_default(price) == [price |-> 0, orders |-> <<>>]

LimitNew(price) == [price |-> price, orders |-> <<>>]

\* push_front in place of push_back
Limit_add_order_front(limit, order) ==
    [limit EXCEPT !.orders = <<order>> \o @]

Limit_add_order(limit, order) ==
    [limit EXCEPT !.orders = Append(@, order)]

\* the incoming size taken without the comparison
Shares_no_min(market_order, limit_order) == market_order.size

\* shares of one fill event
Shares(market_order, limit_order) ==
    IF market_order.size >= limit_order.size
    THEN limit_order.size
    ELSE market_order.size

\* the filled front order left in the queue
PopIfFilled_keep(limit_order, orders) == <<limit_order>> \o Tail(orders)

\* the test of the pop inverted
PopIfFilled_inverted(limit_order, orders) ==
    IF ~is_filled(limit_order)
    THEN Tail(orders)
    ELSE <<limit_order>> \o Tail(orders)

\* the front order after one fill event: popped when filled
PopIfFilled(limit_order, orders) ==
    IF is_filled(limit_order)
    THEN Tail(orders)
    ELSE <<limit_order>> \o Tail(orders)

\* one pass through the body of the while loop of Limit::fill_order
FillStep(limit, market_order, executions) ==
    LET limit_order == Head(limit.orders)
        shares == Shares(market_order, limit_order)
        mo == [market_order EXCEPT !.size = SubAssign(@, shares)]
        lo == [limit_order EXCEPT !.size = SubAssign(@, shares)]
    IN  [limit |-> [limit EXCEPT !.orders = PopIfFilled(lo, @)],
         order |-> mo,
         executions |-> executions \o
                        <<ExecutionNew(market_order, shares, limit.price),
                          ExecutionNew(limit_order, shares, limit.price)>>]

\* the loop condition without the test of the incoming order
WhileGuard_no_fill_test(limit, market_order) == limit.orders # <<>>

\* the condition of the while loop of Limit::fill_order
WhileGuard(limit, market_order) ==
    ~is_filled(market_order) /\ limit.orders # <<>>

\* the while loop of Limit::fill_order
RECURSIVE LimitFillLoop(_, _, _)
LimitFillLoop(limit, market_order, executions) ==
    IF WhileGuard(limit, market_order)
    THEN LET r == FillStep(limit, market_order, executions)
         IN  LimitFillLoop(r.limit, r.order, r.executions)
    ELSE [limit |-> limit, order |-> market_order, executions |-> executions]

\* the loop body run once before the condition is tested
Limit_fill_order_do_while(limit, market_order) ==
    IF limit.orders # <<>>
    THEN LET r == FillStep(limit, market_order, <<>>)
         IN  LimitFillLoop(r.limit, r.order, r.executions)
    ELSE LimitFillLoop(limit, market_order, <<>>)

Limit_fill_order(limit, market_order) ==
    LimitFillLoop(limit, market_order, <<>>)

\* ------------------------------------------------------------ OrderBook
\* the orders in which HashMap::values_mut can yield the levels of a side
IterOrders(map) ==
    {s \in [1..Cardinality(DOMAIN map) -> DOMAIN map] :
        \A i, j \in DOMAIN s : i # j => s[i] # s[j]}

\* a filter with strict comparisons
RECURSIVE Filter_strict(_, _, _, _)
Filter_strict(map, keys, limit_price, wantLe) ==
    IF keys = <<>> THEN <<>>
    ELSE LET k == Head(keys)
             keep == IF wantLe THEN map[k].price < limit_price
                               ELSE map[k].price > limit_price
         IN  (IF keep THEN <<k>> ELSE <<>>)
                \o Filter_strict(map, Tail(keys), limit_price, wantLe)

RECURSIVE Filter(_, _, _, _)
Filter(map, keys, limit_price, wantLe) ==
    IF keys = <<>> THEN <<>>
    ELSE LET k == Head(keys)
             keep == IF wantLe THEN map[k].price <= limit_price
                               ELSE map[k].price >= limit_price
         IN  (IF keep THEN <<k>> ELSE <<>>)
                \o Filter(map, Tail(keys), limit_price, wantLe)

\* a.price.cmp(&b.price) <= 0 (ascending), b.price.cmp(&a.price) <= 0
\* (descending)
AskCmpLe(map, a, b) == map[a].price <= map[b].price
BidCmpLe(map, a, b) == map[b].price <= map[a].price

\* stable insertion of k into a sorted sequence, after its equals
RECURSIVE InsertSorted(_, _, _, _)
InsertSorted(map, sorted, k, asc) ==
    IF sorted = <<>> THEN <<k>>
    ELSE LET h == Head(sorted)
             le == IF asc THEN AskCmpLe(map, h, k) ELSE BidCmpLe(map, h, k)
         IN  IF le THEN <<h>> \o InsertSorted(map, Tail(sorted), k, asc)
                   ELSE <<k>> \o sorted

\* the levels left in the order they came in
SortBy_none(map, keys, asc) == keys

\* slice::sort_by, a stable sort
RECURSIVE SortBy(_, _, _)
SortBy(map, keys, asc) ==
    IF keys = <<>> THEN <<>>
    ELSE InsertSorted(map, SortBy(map, SubSeq(keys, 1, Len(keys) - 1), asc),
                      keys[Len(keys)], asc)

\* the ask levels filtered but left in iteration order
ask_limits_unsorted(asks_, limit_price, iter) ==
    IF limit_price # None THEN Filter(asks_, iter, limit_price, TRUE) ELSE iter

\* the keys of the ask levels to walk, cheapest first; iter is the HashMap's
\* iteration order
ask_limits(asks_, limit_price, iter) ==
    SortBy(asks_,
           IF limit_price # None THEN Filter(asks_, iter, limit_price, TRUE)
                                 ELSE iter,
           TRUE)

\* the bid levels sorted with the comparator of the asks
bid_limits_ascending(bids_, limit_price, iter) ==
    SortBy(bids_,
           IF limit_price # None THEN Filter(bids_, iter, limit_price, FALSE)
                                 ELSE iter,
           TRUE)

\* the keys of the bid levels to walk, highest first
bid_limits(bids_, limit_price, iter) ==
    SortBy(bids_,
           IF limit_price # None THEN Filter(bids_, iter, limit_price, FALSE)
                                 ELSE iter,
           FALSE)

\* a walk that stops after the first level whatever the order's size
FillLoop_first_level_only(map, limits, order_, execs) ==
    IF limits = <<>>
    THEN [map |-> map, order |-> order_, executions |-> execs]
    ELSE LET r == Limit_fill_order(map[Head(limits)], order_)
         IN  [map |-> [map EXCEPT ![Head(limits)] = r.limit],
              order |-> r.order, executions |-> execs \o r.executions]

\* a walk that drops the levels it leaves empty
Prune(map) == [p \in {q \in DOMAIN map : map[q].orders # <<>>} |-> map[p]]
RECURSIVE FillLoop_prune(_, _, _, _)
FillLoop_prune(map, limits, order_, execs) ==
    IF limits = <<>>
    THEN [map |-> Prune(map), order |-> order_, executions |-> execs]
    ELSE LET r == Limit_fill_order(map[Head(limits)], order_)
             map2 == [map EXCEPT ![Head(limits)] = r.limit]
             execs2 == execs \o r.executions
         IN  IF is_filled(r.order)
             THEN [map |-> Prune(map2), order |-> r.order,
                   executions |-> execs2]
             ELSE FillLoop_prune(map2, Tail(limits), r.order, execs2)

\* the for loop of OrderBook::fill_order over the selected levels
RECURSIVE FillLoop(_, _, _, _)
FillLoop(map, limits, order_, execs) ==
    IF limits = <<>>
    THEN [map |-> map, order |-> order_, executions |-> execs]
    ELSE LET r == Limit_fill_order(map[Head(limits)], order_)
             map2 == [map EXCEPT ![Head(limits)] = r.limit]
             execs2 == execs \o r.executions
         IN  IF is_filled(r.order)
             THEN [map |-> map2, order |-> r.order, executions |-> execs2]
             ELSE FillLoop(map2, Tail(limits), r.order, execs2)

\* an insert that replaces the level already stored at the price
SideAdd_overwrite(map, price, order_) ==
    [p \in DOMAIN map \cup {price} |->
        IF p = price THEN Limit_add_order(LimitNew(price), order_)
                     ELSE map[p]]

\* the level looked up and stored under the order's size instead of the price
SideAdd_key_by_size(map, price, order_) ==
    IF order_.size \in DOMAIN map
    THEN [map EXCEPT ![order_.size] = Limit_add_order(@, order_)]
    ELSE [p \in DOMAIN map \cup {order_.size} |->
            IF p = order_.size
            THEN Limit_add_order(LimitNew(order_.size), order_)
            ELSE map[p]]

\* HashMap get_mut / insert of add_limit_order on one side
SideAdd(map, price, order_) ==
    IF price \in DOMAIN map
    THEN [map EXCEPT ![price] = Limit_add_order(@, order_)]
    ELSE [p \in DOMAIN map \cup {price} |->
            IF p = price THEN Limit_add_order(LimitNew(price), order_)
                         ELSE map[p]]

\* the side an incoming order is matched against
Opposing(o, asks_, bids_) == IF o.bid_or_ask = "Bid" THEN asks_ ELSE bids_

\* ------------------------------------------------------------ state
VARIABLES
    asks,        \* OrderBook.asks : price -> Limit
    bids,        \* OrderBook.bids : price -> Limit
    nextId,      \* ids handed out to resting orders so far, plus one
    op,          \* the last call made on the book
    arg_price,   \* its price argument (None for fill_market_order)
    order0,      \* the order as the caller passed it
    order,       \* the caller's order when the call returned
    executions,  \* the Vec<Execution> it returned
    walk         \* the position of a fill call that runs loop pass by loop
                 \* pass (SpecSteps); idle in Spec, where a call is one step

vars == <<asks, bids, nextId, op, arg_price, order0, order, executions, walk>>

\* no fill call is running
Idle == [pc |-> "idle", limits |-> <<>>, n0 |-> 0]

EmptyMap == [p \in {} |-> LimitNew(p)]

Init ==
    /\ asks = EmptyMap
    /\ bids = EmptyMap
    /\ nextId = 1
    /\ op = "new"
    /\ arg_price = None
    /\ order0 = OrderNew(TakerId, "Bid", 0)
    /\ order = OrderNew(TakerId, "Bid", 0)
    /\ executions = <<>>
    /\ walk = Idle

add_limit_order(price, o) ==
    /\ IF o.bid_or_ask = "Bid"
       THEN bids' = SideAdd(bids, price, o) /\ UNCHANGED asks
       ELSE asks' = SideAdd(asks, price, o) /\ UNCHANGED bids
    /\ op' = "add_limit_order"
    /\ arg_price' = price
    /\ order0' = o
    /\ order' = o
    /\ executions' = <<>>
    /\ UNCHANGED walk

\* a fill that rests the unfilled remainder of a limit order on its own side
fill_order_rest_remainder(o, limit_price, name) ==
    /\ IF o.bid_or_ask = "Bid"
       THEN \E iter \in IterOrders(asks) :
                LET r == FillLoop(asks, ask_limits(asks, limit_price, iter),
                                  o, <<>>)
                IN  /\ asks' = r.map
                    /\ order' = r.order
                    /\ executions' = r.executions
                    /\ bids' = IF is_filled(r.order) \/ limit_price = None
                               THEN bids
                               ELSE SideAdd(bids, limit_price, r.order)
       ELSE \E iter \in IterOrders(bids) :
                LET r == FillLoop(bids, bid_limits(bids, limit_price, iter),
                                  o, <<>>)
                IN  /\ bids' = r.map
                    /\ order' = r.order
                    /\ executions' = r.executions
                    /\ asks' = IF is_filled(r.order) \/ limit_price = None
                               THEN asks
                               ELSE SideAdd(asks, limit_price, r.order)
    /\ op' = name
    /\ arg_price' = limit_price
    /\ order0' = o
    /\ UNCHANGED <<nextId, walk>>

fill_order(o, limit_price, name) ==
    /\ IF o.bid_or_ask = "Bid"
       THEN \E iter \in IterOrders(asks) :
                LET r == FillLoop(asks, ask_limits(asks, limit_price, iter),
                                  o, <<>>)
                IN  /\ asks' = r.map
                    /\ order' = r.order
                    /\ executions' = r.executions
                    /\ UNCHANGED bids
       ELSE \E iter \in IterOrders(bids) :
                LET r == FillLoop(bids, bid_limits(bids, limit_price, iter),
                                  o, <<>>)
                IN  /\ bids' = r.map
                    /\ order' = r.order
                    /\ executions' = r.executions
                    /\ UNCHANGED asks
    /\ op' = name
    /\ arg_price' = limit_price
    /\ order0' = o
    /\ UNCHANGED <<nextId, walk>>

AddLimitOrder ==
    \E price \in Prices, side \in Sides, size \in AddSizes :
        /\ nextId <= MaxOrders
        /\ add_limit_order(price, OrderNew(nextId, side, size))
        /\ nextId' = nextId + 1

FillMarketOrder ==
    \E side \in Sides, size \in Sizes :
        fill_order(OrderNew(TakerId, side, size), None, "fill_market_order")

FillLimitOrder ==
    \E side \in Sides, size \in Sizes, price \in Prices :
        fill_order(OrderNew(TakerId, side, size), price, "fill_limit_order")

Next == AddLimitOrder \/ FillMarketOrder \/ FillLimitOrder

Spec == Init /\ [][Next]_vars

\* ------------------------------------------- a fill call, pass by pass
\* The same calls with OrderBook::fill_order run one loop pass per step:
\* walk.limits holds the levels the for loop has still to visit, its head
\* being the level Limit::fill_order is working on.  walk.n0 remembers how
\* many orders rested on the opposing side when the call began.
NumResting(map) ==
    LET RECURSIVE Count(_)
        Count(S) == IF S = {} THEN 0
                    ELSE LET p == CHOOSE q \in S : TRUE
                         IN  Len(map[p].orders) + Count(S \ {p})
    IN  Count(DOMAIN map)

\* fill_order up to the for loop: the levels are selected and sorted
BeginFill(o, limit_price, name) ==
    /\ walk.pc = "idle"
    /\ IF o.bid_or_ask = "Bid"
       THEN \E iter \in IterOrders(asks) :
                walk' = [pc |-> "walk",
                         limits |-> ask_limits(asks, limit_price, iter),
                         n0 |-> NumResting(asks)]
       ELSE \E iter \in IterOrders(bids) :
                walk' = [pc |-> "walk",
                         limits |-> bid_limits(bids, limit_price, iter),
                         n0 |-> NumResting(bids)]
    /\ op' = name
    /\ arg_price' = limit_price
    /\ order0' = o
    /\ order' = o
    /\ executions' = <<>>
    /\ UNCHANGED <<asks, bids, nextId>>

StepAdd == walk.pc = "idle" /\ AddLimitOrder

BeginMarket ==
    \E side \in Sides, size \in Sizes :
        BeginFill(OrderNew(TakerId, side, size), None, "fill_market_order")

BeginLimit ==
    \E side \in Sides, size \in Sizes, price \in Prices :
        BeginFill(OrderNew(TakerId, side, size), price, "fill_limit_order")

\* one pass through the while loop of Limit::fill_order
WhileIter ==
    /\ walk.pc = "walk"
    /\ walk.limits # <<>>
    /\ LET k == Head(walk.limits)
           map == Opposing(order0, asks, bids)
       IN  /\ WhileGuard(map[k], order)
           /\ LET r == FillStep(map[k], order, executions)
              IN  /\ IF order0.bid_or_ask = "Bid"
                     THEN asks' = [asks EXCEPT ![k] = r.limit]
                          /\ UNCHANGED bids
                     ELSE bids' = [bids EXCEPT ![k] = r.limit]
                          /\ UNCHANGED asks
                  /\ order' = r.order
                  /\ executions' = r.executions
    /\ UNCHANGED <<nextId, op, arg_price, order0, walk>>

\* the while loop is left: break when the order is filled, else next level
LevelDone ==
    /\ walk.pc = "walk"
    /\ walk.limits # <<>>
    /\ ~WhileGuard(Opposing(order0, asks, bids)[Head(walk.limits)], order)
    /\ walk' = IF is_filled(order)
               THEN [walk EXCEPT !.pc = "idle", !.limits = <<>>]
               ELSE [walk EXCEPT !.limits = Tail(@)]
    /\ UNCHANGED <<asks, bids, nextId, op, arg_price, order0, order,
                   executions>>

\* the for loop has run out of levels: fill_order returns
Return ==
    /\ walk.pc = "walk"
    /\ walk.limits = <<>>
    /\ walk' = [walk EXCEPT !.pc = "idle"]
    /\ UNCHANGED <<asks, bids, nextId, op, arg_price, order0, order,
                   executions>>

WalkStep == WhileIter \/ LevelDone \/ Return

NextSteps ==
    StepAdd \/ BeginMarket \/ BeginLimit \/ WhileIter \/ LevelDone \/ Return

\* a call runs to completion: the core is synchronous and single-threaded
SpecSteps == Init /\ [][NextSteps]_vars /\ WF_vars(WalkStep)

\* ------------------------------------------------------------ properties
IsFill(o) == o \in {"fill_market_order", "fill_limit_order"}

RestingOrders(map) ==
    UNION {{map[p].orders[i] : i \in 1..Len(map[p].orders)} : p \in DOMAIN map}

\* prices of the levels that hold at least one order
RestingPrices(map) == {map[p].price : p \in {q \in DOMAIN map : map[q].orders # <<>>}}

RECURSIVE SumSizes(_)
SumSizes(seq) ==
    IF seq = <<>> THEN 0 ELSE Head(seq).size + SumSizes(Tail(seq))

TotalResting(map) ==
    LET RECURSIVE Total(_)
        Total(S) == IF S = {} THEN 0
                    ELSE LET p == CHOOSE q \in S : TRUE
                         IN  SumSizes(map[p].orders) + Total(S \ {p})
    IN  Total(DOMAIN map)

TakerExecs == SelectSeq(executions, LAMBDA e : e.id = TakerId)
ResidentExecs == SelectSeq(executions, LAMBDA e : e.id # TakerId)

\* C1: a fill by a Bid consumes the ask levels in ascending price: a level is
\* modified only if every cheaper level is empty when the call returns, and
\* the prices of the returned executions never decrease.
C1_Step ==
    (IsFill(op') /\ order0'.bid_or_ask = "Bid") =>
        /\ \A p \in DOMAIN asks :
              asks'[p] # asks[p] =>
                 \A q \in DOMAIN asks :
                    asks[q].price < asks[p].price => asks'[q].orders = <<>>
        /\ \A i, j \in 1..Len(executions') :
              i <= j => executions'[i].price <= executions'[j].price
C1_PricePriorityBid == [][C1_Step]_vars

C1_Witness ==
    /\ IsFill(op) /\ order0.bid_or_ask = "Bid"
    /\ Len(executions) >= 4
    /\ executions[1].price < executions[Len(executions)].price

\* C2: a fill by an Ask consumes the bid levels in descending price: a level
\* is modified only if every higher level is empty when the call returns, and
\* the prices of the returned executions never increase.
C2_Step ==
    (IsFill(op') /\ order0'.bid_or_ask = "Ask") =>
        /\ \A p \in DOMAIN bids :
              bids'[p] # bids[p] =>
                 \A q \in DOMAIN bids :
                    bids[q].price > bids[p].price => bids'[q].orders = <<>>
        /\ \A i, j \in 1..Len(executions') :
              i <= j => executions'[i].price >= executions'[j].price
C2_PricePriorityAsk == [][C2_Step]_vars

C2_Witness ==
    /\ IsFill(op) /\ order0.bid_or_ask = "Ask"
    /\ Len(executions) >= 4
    /\ executions[1].price > executions[Len(executions)].price

\* C3: fill_limit_order(order, L) leaves every opposing level beyond L
\* unchanged and executes only at prices within L; a level priced exactly L
\* is walked, so it is empty whenever the order comes back unfilled.
C3_Step ==
    (op' = "fill_limit_order") =>
        IF order0'.bid_or_ask = "Bid"
        THEN /\ \A p \in DOMAIN asks :
                   asks[p].price > arg_price' => asks'[p] = asks[p]
             /\ \A i \in 1..Len(executions') :
                   executions'[i].price <= arg_price'
             /\ ~is_filled(order') =>
                   \A p \in DOMAIN asks' :
                      asks'[p].price = arg_price' => asks'[p].orders = <<>>
        ELSE /\ \A p \in DOMAIN bids :
                   bids[p].price < arg_price' => bids'[p] = bids[p]
             /\ \A i \in 1..Len(executions') :
                   executions'[i].price >= arg_price'
             /\ ~is_filled(order') =>
                   \A p \in DOMAIN bids' :
                      bids'[p].price = arg_price' => bids'[p].orders = <<>>
C3_LimitPriceBoundary == [][C3_Step]_vars

C3_Witness ==
    /\ op = "fill_limit_order" /\ order0.bid_or_ask = "Bid"
    /\ executions # <<>>
    /\ executions[Len(executions)].price = arg_price
    /\ ~is_filled(order)
    /\ \E p \in DOMAIN asks :
          asks[p].price > arg_price /\ asks[p].orders # <<>>

\* C4: within a level the orders a call removes are a prefix of the queue in
\* arrival order and each was executed for its whole size, at most the first
\* survivor has been reduced, and every order behind it is untouched; an add
\* leaves the old queue as a prefix of the new one.
TimePriority(pre, post, execs) ==
    \E k \in 0..Len(pre) :
        /\ Len(post) >= Len(pre) - k
        /\ \A i \in 1..k :
              /\ \A j \in 1..Len(post) : post[j].id # pre[i].id
              /\ \E e \in 1..Len(execs) :
                    execs[e].id = pre[i].id /\ execs[e].size = pre[i].size
        /\ \A i \in (k + 2)..Len(pre) : post[i - k] = pre[i]
        /\ k < Len(pre) =>
              /\ post[1].id = pre[k + 1].id
              /\ post[1].size <= pre[k + 1].size
              /\ post[1].size > 0
C4_Step ==
    /\ \A p \in DOMAIN asks :
          TimePriority(asks[p].orders, asks'[p].orders, executions')
    /\ \A p \in DOMAIN bids :
          TimePriority(bids[p].orders, bids'[p].orders, executions')
C4_TimePriority == [][C4_Step]_vars

C4_Witness ==
    /\ IsFill(op)
    /\ Len(executions) >= 4
    /\ executions[2].id # executions[4].id
    /\ executions[2].price = executions[4].price
    /\ \E p \in DOMAIN Opposing(order0, asks, bids) :
          LET q == Opposing(order0, asks, bids)[p].orders
          IN  /\ q # <<>>
              /\ q[1].id = executions[4].id
              /\ q[1].size > 0

\* C5: in every fill call the execution sizes attributed to the incoming
\* order and to the resident orders have the same sum, which is the amount
\* the incoming order's size decreased by and the amount the opposing side's
\* total resting size decreased by.
C5_Step ==
    IsFill(op') =>
        /\ SumSizes(TakerExecs') = SumSizes(ResidentExecs')
        /\ SumSizes(TakerExecs') = order0'.size - order'.size
        /\ SumSizes(TakerExecs') =
              TotalResting(Opposing(order0', asks, bids))
                 - TotalResting(Opposing(order0', asks', bids'))
C5_Conservation == [][C5_Step]_vars

\* C6: no call increases the size of the incoming order or of an order that
\* rests before and after it, and no size is negative.
C6_Step ==
    /\ order'.size <= order0'.size
    /\ order'.size >= 0
    /\ \A o \in RestingOrders(asks') \cup RestingOrders(bids') : o.size >= 0
    /\ \A o \in RestingOrders(asks) \cup RestingOrders(bids) :
          \A n \in RestingOrders(asks') \cup RestingOrders(bids') :
             n.id = o.id => n.size <= o.size
C6_MonotonicSize == [][C6_Step]_vars

C6_Witness ==
    /\ IsFill(op)
    /\ executions # <<>>
    /\ order.size = 0 /\ order0.size > 0
    /\ \E o \in RestingOrders(Opposing(order0, asks, bids)) :
          /\ o.id = executions[Len(executions)].id
          /\ o.size > 0

\* C7 as claimed: after any completed call no resting ask price is less than
\* or equal to a resting bid price.
Uncrossed ==
    \A a \in RestingPrices(asks) : \A b \in RestingPrices(bids) : a > b
C7_NoCrossedBook == Uncrossed

\* an add_limit_order whose price reaches a resting order of the other side
CrossingAdd ==
    /\ op' = "add_limit_order"
    /\ IF order0'.bid_or_ask = "Bid"
       THEN \E a \in RestingPrices(asks) : a <= arg_price'
       ELSE \E b \in RestingPrices(bids) : b >= arg_price'

\* C7 as amended: an uncrossed book stays uncrossed through every fill call
\* and through every add_limit_order whose price does not reach a resting
\* order of the opposite side.
C7_Step == (Uncrossed /\ ~CrossingAdd) => Uncrossed'
C7_CrossedOnlyByCrossingAdd == [][C7_Step]_vars

C7_Witness ==
    /\ op = "add_limit_order"
    /\ RestingPrices(asks) # {}
    /\ RestingPrices(bids) # {}
    /\ Uncrossed

\* C8: a fill call with an order of size zero returns no executions and
\* changes neither the order nor any level of either side; the same holds of
\* Limit::fill_order on every level of the book.
ZeroOrders == {OrderNew(TakerId, s, 0) : s \in Sides}
C8_Step ==
    /\ (IsFill(op') /\ order0'.size = 0) =>
          /\ executions' = <<>>
          /\ order' = order0'
          /\ asks' = asks
          /\ bids' = bids
    /\ \A o \in ZeroOrders :
          \A l \in {asks'[p] : p \in DOMAIN asks'}
                      \cup {bids'[p] : p \in DOMAIN bids'} :
             Limit_fill_order(l, o) =
                [limit |-> l, order |-> o, executions |-> <<>>]
C8_FilledOrderNoOp == [][C8_Step]_vars

C8_Witness ==
    /\ IsFill(op)
    /\ order0.size = 0
    /\ RestingPrices(Opposing(order0, asks, bids)) # {}

\* C9: when fill_market_order returns, the order is filled or every level of
\* the opposite side is empty.
C9_MarketExhaustive ==
    op = "fill_market_order" =>
        \/ is_filled(order)
        \/ RestingPrices(Opposing(order0, asks, bids)) = {}

C9_Witness ==
    /\ op = "fill_market_order"
    /\ ~is_filled(order)
    /\ Len(executions) >= 4
    /\ executions[1].price # executions[Len(executions)].price

\* C10: add_limit_order appends the order to the back of the level at the
\* given price on the order's own side, creating the level if absent; it
\* returns no executions, leaves the order, the other levels of that side and
\* the whole opposite side unchanged, also when the price crosses; every
\* order in the bid map is a Bid and every order in the ask map an Ask.
AddedTo(map, map2, price, o) ==
    /\ DOMAIN map2 = DOMAIN map \cup {price}
    /\ map2[price].price = price
    /\ map2[price].orders =
          (IF price \in DOMAIN map THEN map[price].orders ELSE <<>>) \o <<o>>
    /\ \A p \in DOMAIN map : p # price => map2[p] = map[p]
C10_Step ==
    /\ op' = "add_limit_order" =>
          /\ executions' = <<>>
          /\ order' = order0'
          /\ IF order0'.bid_or_ask = "Bid"
             THEN AddedTo(bids, bids', arg_price', order0') /\ asks' = asks
             ELSE AddedTo(asks, asks', arg_price', order0') /\ bids' = bids
    /\ \A o \in RestingOrders(bids') : o.bid_or_ask = "Bid"
    /\ \A o \in RestingOrders(asks') : o.bid_or_ask = "Ask"
C10_AddRestsWithoutMatching == [][C10_Step]_vars

C10_Witness ==
    /\ op = "add_limit_order"
    /\ order0.bid_or_ask = "Bid"
    /\ \E a \in RestingPrices(asks) : a <= arg_price
    /\ Len(bids[arg_price].orders) >= 2

Min(a, b) == IF a <= b THEN a ELSE b

\* the side an order rests on
OwnSide(o, asks_, bids_) == IF o.bid_or_ask = "Bid" THEN bids_ ELSE asks_

\* the levels fill_order(o, limit_price) may walk
Acceptable(map, o, limit_price) ==
    {p \in DOMAIN map :
        \/ limit_price = None
        \/ o.bid_or_ask = "Bid" /\ map[p].price <= limit_price
        \/ o.bid_or_ask = "Ask" /\ map[p].price >= limit_price}

\* C11: the executions of a fill call come in consecutive pairs, the first
\* with the incoming order's id and side, the second with the id and side of
\* an order that rested on the opposing side; both carry
\* min(incoming size, resident size) as the sizes stood before the decrement
\* and the price of the resident's level.
C11_Step ==
    IsFill(op') =>
        LET ex == executions'
            opp == Opposing(order0', asks, bids)
            RECURSIVE IncomingBefore(_)
            IncomingBefore(k) ==
                IF k = 1 THEN order0'.size
                ELSE SubAssign(IncomingBefore(k - 1), ex[2 * k - 3].size)
        IN  /\ Len(ex) % 2 = 0
            /\ \A k \in 1..(Len(ex) \div 2) :
                  LET t == ex[2 * k - 1]
                      r == ex[2 * k]
                  IN  /\ t.id = order0'.id
                      /\ t.bid_or_ask = order0'.bid_or_ask
                      /\ \E p \in DOMAIN opp :
                            \E i \in 1..Len(opp[p].orders) :
                               LET res == opp[p].orders[i]
                               IN  /\ r.id = res.id
                                   /\ r.bid_or_ask = res.bid_or_ask
                                   /\ t.size = Min(IncomingBefore(k), res.size)
                                   /\ r.size = t.size
                                   /\ t.price = opp[p].price
                                   /\ r.price = opp[p].price
C11_ExecutionPairing == [][C11_Step]_vars

C11_Witness ==
    /\ op = "fill_limit_order"
    /\ Len(executions) >= 4
    /\ executions[1].price # arg_price
    /\ executions[2].size # executions[4].size

\* C12: every fill call terminates, after at most as many fill events
\* (pairs of executions) as orders rested on the opposing side when it began.
C12_Termination ==
    /\ [](Len(executions) <= 2 * walk.n0)
    /\ (walk.pc = "walk") ~> (walk.pc = "idle")

C12_Witness ==
    /\ IsFill(op)
    /\ walk.pc = "idle"
    /\ walk.n0 >= 2
    /\ Len(executions) = 2 * walk.n0

\* C13: every resting order has size > 0 at every point of every call: a
\* resident that reaches zero is popped in the loop pass that fills it,
\* before the next resident is looked at.
C13_ResidentSizesPositive ==
    \A o \in RestingOrders(asks) \cup RestingOrders(bids) : o.size > 0

C13_Witness ==
    /\ walk.pc = "walk"
    /\ executions # <<>>
    /\ ~is_filled(order)
    /\ walk.limits # <<>>
    /\ Opposing(order0, asks, bids)[Head(walk.limits)].orders # <<>>

\* C14: once the incoming order's size is zero the call changes no level, no
\* resident and emits no further execution, and returns at its next step;
\* while it runs, a loop pass changes nothing but the front order of the
\* level being walked.
C14_Step ==
    walk.pc = "walk" =>
        /\ is_filled(order) =>
              /\ asks' = asks
              /\ bids' = bids
              /\ order' = order
              /\ executions' = executions
              /\ walk'.pc = "idle"
        /\ OwnSide(order0, asks', bids') = OwnSide(order0, asks, bids)
        /\ LET opp == Opposing(order0, asks, bids)
               opp2 == Opposing(order0, asks', bids')
           IN  \A p \in DOMAIN opp :
                  IF walk.limits # <<>> /\ p = Head(walk.limits)
                  THEN \/ opp2[p] = opp[p]
                       \/ /\ opp[p].orders # <<>>
                          /\ opp2[p].price = opp[p].price
                          /\ \/ opp2[p].orders = Tail(opp[p].orders)
                             \/ /\ opp2[p].orders # <<>>
                                /\ Tail(opp2[p].orders) = Tail(opp[p].orders)
                  ELSE opp2[p] = opp[p]
C14_WalkHaltsWhenFilled == [][C14_Step]_vars

C14_Witness ==
    /\ IsFill(op)
    /\ walk.pc = "idle"
    /\ order0.bid_or_ask = "Bid"
    /\ order0.size > 0
    /\ is_filled(order)
    /\ \E p \in DOMAIN asks :
          /\ asks[p].price = executions[Len(executions)].price
          /\ Len(asks[p].orders) >= 2
          /\ asks[p].orders[1].id = executions[Len(executions)].id
          /\ \E q \in DOMAIN asks :
                asks[q].price > asks[p].price /\ asks[q].orders # <<>>

\* C15: a fill call with size s against total resting volume V on the
\* acceptable opposing levels returns with the order's size exactly
\* s - min(s, V), and with every acceptable level empty when s > V.
C15_Step ==
    IsFill(op') =>
        LET opp == Opposing(order0', asks, bids)
            opp2 == Opposing(order0', asks', bids')
            acc == Acceptable(opp, order0', arg_price')
            V == TotalResting([p \in acc |-> opp[p]])
            s == order0'.size
        IN  /\ order'.size = s - Min(s, V)
            /\ s > V => \A p \in acc : opp2[p].orders = <<>>
C15_PartialFillAmount == [][C15_Step]_vars

\* C16: an incoming order smaller than the resident it meets first leaves
\* that resident at the front of its level with its size reduced by the
\* incoming size, and is itself filled; a fill call leaves at most one
\* touched resident resting, at the front of the last level touched.
C16_Step ==
    (IsFill(op') /\ executions' # <<>>) =>
        LET ex == executions'
            opp == Opposing(order0', asks, bids)
            opp2 == Opposing(order0', asks', bids')
            touched == {ex[2 * k].id : k \in 1..(Len(ex) \div 2)}
            partial == {o \in RestingOrders(opp2) : o.id \in touched}
        IN  /\ \A p \in DOMAIN opp :
                  (/\ opp[p].orders # <<>>
                   /\ opp[p].orders[1].id = ex[2].id
                   /\ order0'.size < opp[p].orders[1].size) =>
                     /\ is_filled(order')
                     /\ opp2[p].orders =
                           <<[opp[p].orders[1] EXCEPT
                                 !.size = @ - order0'.size]>>
                              \o Tail(opp[p].orders)
            /\ Cardinality(partial) <= 1
            /\ \A o \in partial :
                  \E p \in DOMAIN opp2 :
                     /\ opp2[p].price = ex[Len(ex)].price
                     /\ opp2[p].orders # <<>>
                     /\ opp2[p].orders[1] = o
C16_PartialResidentKeepsFront == [][C16_Step]_vars

\* C17: no call removes a price level: the keys of each side only grow; a
\* level whose queue is empty stays in the map, and an add_limit_order at its
\* price puts the order into that level.
C17_Step ==
    /\ DOMAIN asks \subseteq DOMAIN asks'
    /\ DOMAIN bids \subseteq DOMAIN bids'
    /\ IsFill(op') => DOMAIN asks' = DOMAIN asks /\ DOMAIN bids' = DOMAIN bids
    /\ op' = "add_limit_order" =>
          LET own == OwnSide(order0', asks, bids)
              own2 == OwnSide(order0', asks', bids')
          IN  (arg_price' \in DOMAIN own /\ own[arg_price'].orders = <<>>) =>
                 /\ DOMAIN own2 = DOMAIN own
                 /\ own2[arg_price'].orders = <<order0'>>
C17_EmptyLevelRetention == [][C17_Step]_vars

\* the first order added rested at this price on the Bid side and is gone;
\* the second add found its emptied level
C17_Witness ==
    /\ op = "add_limit_order"
    /\ order0.bid_or_ask = "Bid"
    /\ order0.id = 2
    /\ DOMAIN asks = {}
    /\ DOMAIN bids = {arg_price}
    /\ bids[arg_price].orders = <<order0>>

\* C18: each side holds one level per price, stored under its own price, and
\* an add_limit_order at a price that has a level puts the order behind the
\* orders already there without making another level.
C18_Step ==
    /\ \A p \in DOMAIN asks' : asks'[p].price = p
    /\ \A p \in DOMAIN bids' : bids'[p].price = p
    /\ \A p, q \in DOMAIN asks' : asks'[p].price = asks'[q].price => p = q
    /\ \A p, q \in DOMAIN bids' : bids'[p].price = bids'[q].price => p = q
    /\ op' = "add_limit_order" =>
          LET own == OwnSide(order0', asks, bids)
              own2 == OwnSide(order0', asks', bids')
          IN  /\ Cardinality({p \in DOMAIN own2 : own2[p].price = arg_price'})
                    = 1
              /\ arg_price' \in DOMAIN own =>
                    /\ Cardinality(DOMAIN own2) = Cardinality(DOMAIN own)
                    /\ own2[arg_price'].orders =
                          Append(own[arg_price'].orders, order0')
C18_OneLevelPerPrice == [][C18_Step]_vars

C18_Witness ==
    /\ op = "add_limit_order"
    /\ order0.bid_or_ask = "Ask"
    /\ Len(asks[arg_price].orders) >= 2
    /\ asks[arg_price].orders[Len(asks[arg_price].orders)] = order0
    /\ asks[arg_price].orders[1].id < order0.id

\* C19: the outcome of a fill call (executions, remaining size, resulting
\* book) is the same for every iteration order of the map, and two adds at
\* different prices of a side give the same book in either order.
FillOutcome(o, limit_price, iter) ==
    IF o.bid_or_ask = "Bid"
    THEN FillLoop(asks, ask_limits(asks, limit_price, iter), o, <<>>)
    ELSE FillLoop(bids, bid_limits(bids, limit_price, iter), o, <<>>)
C19_InsertionOrderIrrelevant ==
    /\ \A side \in Sides, size \in Sizes, limit_price \in Prices \cup {None} :
          LET o == OrderNew(TakerId, side, size)
              its == IterOrders(Opposing(o, asks, bids))
          IN  \A i1, i2 \in its :
                 FillOutcome(o, limit_price, i1)
                    = FillOutcome(o, limit_price, i2)
    /\ \A side \in Sides, p1, p2 \in Prices, s1, s2 \in AddSizes :
          LET o1 == OrderNew(nextId, side, s1)
              o2 == OrderNew(nextId + 1, side, s2)
              own == OwnSide(o1, asks, bids)
          IN  p1 # p2 =>
                 SideAdd(SideAdd(own, p1, o1), p2, o2)
                    = SideAdd(SideAdd(own, p2, o2), p1, o1)

C19_Witness ==
    /\ IsFill(op)
    /\ Cardinality(IterOrders(Opposing(order0, asks, bids))) >= 2
    /\ Len(executions) >= 4
    /\ executions[2].price # executions[4].price
    /\ RestingPrices(Opposing(order0, asks, bids)) # {}

\* C20: a fill call leaves the incoming order's own side unchanged and never
\* rests the incoming order, filled or not, in the book.
C20_Step ==
    IsFill(op') =>
        /\ OwnSide(order0', asks', bids') = OwnSide(order0', asks, bids)
        /\ \A o \in RestingOrders(asks') \cup RestingOrders(bids') :
              o.id # order0'.id
        /\ NumResting(asks') + NumResting(bids')
              <= NumResting(asks) + NumResting(bids)
C20_FillLeavesOwnSide == [][C20_Step]_vars

C20_Witness ==
    /\ op = "fill_limit_order"
    /\ executions # <<>>
    /\ ~is_filled(order)
    /\ RestingPrices(OwnSide(order0, asks, bids)) # {}

====
